---- MODULE Spec2Model ----
(***************************************************************************)
(* ERFMS backend: the schema-validated generic collection access layer.    *)
(*                                                                         *)
(* src/schemas.py declares eight pydantic models; src/main.py exposes      *)
(* GET /schema, and a list and a create route for five of the collections  *)
(* (project, ceeapplication, marapplication, audit, document).  The        *)
(* document store (module `database`: db, create_document, get_documents)  *)
(* is not part of the sources and is modelled from the specification.      *)
(***************************************************************************)
EXTENDS Integers, Sequences, FiniteSets, TLC

(***************************************************************************)
(* Bounds of the model.                                                    *)
(***************************************************************************)
\* number of HTTP requests that arrive in one behaviour
NumReqs == 2
\* the limit query parameter ranges over 1..MaxLimit
MaxLimit == 1
\* every routed collection initially holds 0..MaxInitial legacy documents
MaxInitial == 1

(***************************************************************************)
(* JSON / Python values, tagged by their type.                             *)
(***************************************************************************)
Str(s) == [t |-> "str", v |-> s]
Num(n) == [t |-> "num", v |-> n]
Date(s) == [t |-> "date", v |-> s]
Oid(n) == [t |-> "oid", v |-> n]
Null == [t |-> "null", v |-> "None"]
\* pydantic's `...`: the field has no default and is required
Ellipsis == [t |-> "ellipsis", v |-> "..."]

\* strings that parse as numbers (pydantic's lax mode accepts them)
ParseNum == [s \in {"0", "3", "-5"} |-> CASE s = "0" -> 0 [] s = "3" -> 3 [] s = "-5" -> 0 - 5]
\* strings that parse as ISO-8601 dates / datetimes
IsoDates == {"2024-01-31", "2024-02-29T10:00:00"}

(***************************************************************************)
(* src/schemas.py: the field declarations.  A field is                     *)
(*   name, type, default (Ellipsis = required), optional (Optional[...]),  *)
(*   ge (Null = no bound), allowed (the Literal values of an enum).        *)
(***************************************************************************)
Fld(name, type, default, optional, ge, allowed) ==
    [name |-> name, type |-> type, default |-> default, optional |-> optional,
     ge |-> ge, allowed |-> allowed]

Req(name, type) == Fld(name, type, Ellipsis, FALSE, Null, {})
Opt(name, type) == Fld(name, type, Null, TRUE, Null, {})
OptGe(name, type, default, bound) == Fld(name, type, default, TRUE, Num(bound), {})
Enum(name, default, allowed) == Fld(name, "enum", Str(default), FALSE, Null, allowed)

User ==
    [name |-> <<"U", "s", "e", "r">>,
     fields |-> << Req("name", "str"),
                   Req("email", "email"),
                   Enum("role", "client", {"admin", "manager", "auditor", "client"}),
                   Fld("is_active", "bool", [t |-> "bool", v |-> TRUE], FALSE, Null, {}) >>]

Client ==
    [name |-> <<"C", "l", "i", "e", "n", "t">>,
     fields |-> << Req("name", "str"),
                   Opt("contact_email", "email"),
                   Opt("contact_phone", "str"),
                   Opt("address", "str"),
                   Opt("notes", "str") >>]

Document ==
    [name |-> <<"D", "o", "c", "u", "m", "e", "n", "t">>,
     fields |-> << Opt("project_id", "str"),
                   Req("title", "str"),
                   Enum("doc_type", "other",
                        {"quote", "invoice", "contract", "photo", "audit_report",
                         "cee_attachment", "mar_attachment", "other"}),
                   Opt("url", "str"),
                   OptGe("version", "int", Num(1), 1),
                   Opt("notes", "str") >>]

Project ==
    [name |-> <<"P", "r", "o", "j", "e", "c", "t">>,
     fields |-> << Req("title", "str"),
                   Opt("client_id", "str"),
                   Opt("manager_id", "str"),
                   Enum("status", "draft",
                        {"draft", "in_progress", "awaiting_documents",
                         "awaiting_approval", "completed", "archived"}),
                   Opt("start_date", "date"),
                   Opt("due_date", "date"),
                   OptGe("budget_eur", "float", Null, 0),
                   Opt("description", "str") >>]

Task ==
    [name |-> <<"T", "a", "s", "k">>,
     fields |-> << Req("project_id", "str"),
                   Req("title", "str"),
                   Opt("assignee_id", "str"),
                   Opt("due_date", "date"),
                   Enum("status", "todo", {"todo", "in_progress", "blocked", "done"}) >>]

CEEApplication ==
    [name |-> <<"C", "E", "E", "A", "p", "p", "l", "i", "c", "a", "t", "i", "o", "n">>,
     fields |-> << Req("project_id", "str"),
                   Enum("status", "draft",
                        {"draft", "submitted", "awaiting_approval", "approved", "rejected"}),
                   Opt("submission_date", "date"),
                   Opt("approval_date", "date"),
                   OptGe("cee_volume_kwh", "float", Null, 0),
                   OptGe("cee_value_eur", "float", Null, 0) >>]

MARApplication ==
    [name |-> <<"M", "A", "R", "A", "p", "p", "l", "i", "c", "a", "t", "i", "o", "n">>,
     fields |-> << Req("project_id", "str"),
                   Enum("status", "pre_application",
                        {"pre_application", "submitted", "awaiting_instruction",
                         "instruction_in_progress", "grant_awarded", "payment_received"}),
                   OptGe("amount_eur", "float", Null, 0),
                   Opt("last_update", "datetime") >>]

Audit ==
    [name |-> <<"A", "u", "d", "i", "t">>,
     fields |-> << Req("project_id", "str"),
                   Enum("status", "scheduled",
                        {"scheduled", "in_progress", "report_generated", "client_reviewed"}),
                   Opt("scheduled_date", "date"),
                   Opt("auditor_id", "str"),
                   Opt("report_document_id", "str") >>]

FieldNames(model) == {model.fields[i].name : i \in 1..Len(model.fields)}
FieldOf(model, n) == CHOOSE f \in {model.fields[i] : i \in 1..Len(model.fields)} : f.name = n

(***************************************************************************)
(* pydantic validation of a request body against a model                   *)
(* (what `payload: Project` in a route signature makes FastAPI do).        *)
(***************************************************************************)
Ok(v) == [ok |-> TRUE, value |-> v, type |-> "none"]
Err(type) == [ok |-> FALSE, value |-> Null, type |-> type]

\* faulty variant: the lower bound of a field is not enforced
GeOk_unchecked(n, ge) == TRUE

\* Field(..., ge=bound)
GeOk(n, ge) == ge.t = "null" \/ n >= ge.v

CheckNum(n, f) == IF GeOk(n, f.ge) THEN Ok(Num(n)) ELSE Err("ConstraintViolation")

\* the error type pydantic reports when the value has the wrong shape
ShapeError(f) == IF f.type = "enum" THEN "InvalidEnumValue" ELSE "InvalidFormat"

ValidateValue(f, v) ==
    IF v.t = "null"
    THEN IF f.optional THEN Ok(Null) ELSE Err(ShapeError(f))
    ELSE CASE f.type = "str" ->
                  IF v.t = "str" THEN Ok(v) ELSE Err("InvalidFormat")
           [] f.type \in {"int", "float"} ->
                  IF v.t = "num" THEN CheckNum(v.v, f)
                  ELSE IF v.t = "str" /\ v.v \in DOMAIN ParseNum
                       THEN CheckNum(ParseNum[v.v], f)
                       ELSE Err("InvalidFormat")
           [] f.type = "enum" ->
                  IF v.t = "str" /\ v.v \in f.allowed THEN Ok(v) ELSE Err("InvalidEnumValue")
           [] f.type \in {"date", "datetime"} ->
                  IF v.t = "str" /\ v.v \in IsoDates THEN Ok(Date(v.v)) ELSE Err("InvalidFormat")
           [] f.type = "bool" ->
                  IF v.t = "bool" THEN Ok(v) ELSE Err("InvalidFormat")
           [] OTHER ->
                  Err("InvalidFormat")

\* faulty variant: an absent required field is taken as null instead of reported
ValidateField_lenient(f, payload) ==
    IF f.name \in DOMAIN payload
    THEN ValidateValue(f, payload[f.name])
    ELSE IF f.default = Ellipsis THEN Ok(Null) ELSE Ok(f.default)

\* faulty variant: an absent field is left null, its declared default ignored
ValidateField_nodefault(f, payload) ==
    IF f.name \in DOMAIN payload
    THEN ValidateValue(f, payload[f.name])
    ELSE IF f.default = Ellipsis THEN Err("MissingField") ELSE Ok(Null)

\* an absent field takes its default; a required one is reported missing
ValidateField(f, payload) ==
    IF f.name \in DOMAIN payload
    THEN ValidateValue(f, payload[f.name])
    ELSE IF f.default = Ellipsis THEN Err("MissingField") ELSE Ok(f.default)

\* the errors, one per offending field, in field order
RECURSIVE ErrorsFrom(_, _, _)
ErrorsFrom(model, payload, i) ==
    IF i > Len(model.fields) THEN << >>
    ELSE LET r == ValidateField(model.fields[i], payload)
         IN  (IF r.ok THEN << >> ELSE << [type |-> r.type, loc |-> model.fields[i].name] >>)
             \o ErrorsFrom(model, payload, i + 1)

\* extra keys of the payload are ignored; the instance holds every declared field
Validate(model, payload) ==
    LET errs == ErrorsFrom(model, payload, 1)
    IN  IF errs = << >>
        THEN [ok |-> TRUE, errors |-> << >>,
              value |-> [n \in FieldNames(model) |-> ValidateField(FieldOf(model, n), payload).value]]
        ELSE [ok |-> FALSE, errors |-> errs, value |-> << >>]

(***************************************************************************)
(* src/main.py, GET /schema.                                               *)
(* The descriptor's type label and description are not modelled.           *)
(***************************************************************************)
\* str.lower() on one character
LowerChar(c) ==
    CASE c = "A" -> "a" [] c = "C" -> "c" [] c = "D" -> "d" [] c = "E" -> "e"
      [] c = "M" -> "m" [] c = "P" -> "p" [] c = "R" -> "r" [] c = "T" -> "t"
      [] c = "U" -> "u" [] OTHER -> c

Lower(name) == [i \in 1..Len(name) |-> LowerChar(name[i])]

\* faulty variant: a field counts as required unless it is declared Optional
IsRequired_notOptional(f) == ~f.optional

\* FieldInfo.is_required()
IsRequired(f) == f.default = Ellipsis

SchemaField(f) == [name |-> f.name, required |-> IsRequired(f)]

\* the list `models` of get_schema
Models == << User, Client, Document, Project, Task, CEEApplication, MARApplication, Audit >>

Descriptor(model) ==
    [name |-> Lower(model.name),
     title |-> model.name,
     fields |-> [j \in 1..Len(model.fields) |-> SchemaField(model.fields[j])]]

SchemaPayload == [collections |-> [i \in 1..Len(Models) |-> Descriptor(Models[i])]]

(***************************************************************************)
(* src/main.py, the CRUD routes: each names its collection and, for a      *)
(* POST, the model its body is validated against.                          *)
(***************************************************************************)
Routes == {"projects", "cee", "mar", "audits", "documents"}

\* faulty variant: the mar routes name the cee collection
RouteCollection_swapped(route) ==
    CASE route = "projects" -> "project"
      [] route = "cee" -> "ceeapplication"
      [] route = "mar" -> "ceeapplication"
      [] route = "audits" -> "audit"
      [] route = "documents" -> "document"

RouteCollection(route) ==
    CASE route = "projects" -> "project"
      [] route = "cee" -> "ceeapplication"
      [] route = "mar" -> "marapplication"
      [] route = "audits" -> "audit"
      [] route = "documents" -> "document"

RouteModel(route) ==
    CASE route = "projects" -> Project
      [] route = "cee" -> CEEApplication
      [] route = "mar" -> MARApplication
      [] route = "audits" -> Audit
      [] route = "documents" -> Document

\* the helper table COLLECTIONS: collection name -> model
COLLECTIONS ==
    [c \in {"user", "client", "document", "project", "task", "ceeapplication",
            "marapplication", "audit"} |->
        CASE c = "user" -> User
          [] c = "client" -> Client
          [] c = "document" -> Document
          [] c = "project" -> Project
          [] c = "task" -> Task
          [] c = "ceeapplication" -> CEEApplication
          [] c = "marapplication" -> MARApplication
          [] c = "audit" -> Audit]

Collections == DOMAIN COLLECTIONS

\* limit: int = 100
DefaultLimit == 100

(***************************************************************************)
(* The request bodies and query parameters the clients send.               *)
(***************************************************************************)
Payloads(route) ==
    CASE route = "projects" ->
           { [k \in {"title"} |-> Str("Roof insulation")],
             ("title" :> Str("Attic")) @@ ("status" :> Str("completed"))
                 @@ ("budget_eur" :> Num(0)) @@ ("owner" :> Str("x")),
             ("title" :> Str("Attic")) @@ ("budget_eur" :> Num(0 - 5)),
             ("status" :> Str("bogus")) @@ ("budget_eur" :> Num(0 - 5)) }
      [] route = "cee" ->
           { [k \in {"status"} |-> Str("submitted")],
             ("project_id" :> Str("p1")) @@ ("cee_volume_kwh" :> Str("-5"))
                 @@ ("cee_value_eur" :> Num(0)),
             ("project_id" :> Str("p1")) @@ ("cee_value_eur" :> Null)
                 @@ ("submission_date" :> Str("2024-01-31")) }
      [] route = "mar" ->
           { ("project_id" :> Str("p1")) @@ ("amount_eur" :> Num(0 - 5)),
             ("project_id" :> Str("p1")) @@ ("amount_eur" :> Num(0)),
             ("project_id" :> Str("p1")) @@ ("status" :> Str("paid")) }
      [] route = "audits" ->
           { [k \in {"project_id"} |-> Str("p1")],
             [k \in {"project_id"} |-> Null] }
      [] route = "documents" ->
           { [k \in {"title"} |-> Str("Quote")],
             ("title" :> Str("Quote")) @@ ("version" :> Num(0)),
             ("title" :> Str("Quote")) @@ ("version" :> Null) }

Limits == (1..MaxLimit) \cup {DefaultLimit}

NoRequest == [op |-> "none", route |-> "none", payload |-> << >>, limit |-> 0]

Requests ==
    UNION {{[op |-> "create", route |-> r, payload |-> b, limit |-> 0] : b \in Payloads(r)} :
              r \in Routes}
    \cup {[op |-> "list", route |-> r, payload |-> << >>, limit |-> n] : r \in Routes, n \in Limits}
    \cup {[op |-> "schema", route |-> "none", payload |-> << >>, limit |-> 0]}

(***************************************************************************)
(* The document store (module `database`).                                 *)
(***************************************************************************)
\* str(ObjectId): the hexadecimal form of the n-th identifier the store assigned
ObjectIdHex ==
    << "65a000000000000000000001", "65a000000000000000000002", "65a000000000000000000003",
       "65a000000000000000000004", "65a000000000000000000005", "65a000000000000000000006",
       "65a000000000000000000007", "65a000000000000000000008" >>

\* Python's str() on a stored identifier
ToStr(v) ==
    CASE v.t = "oid" -> Str(ObjectIdHex[v.v])
      [] v.t = "str" -> v

\* a document written before the current schema: it has a field the schema
\* lacks, a domain field named id, and no title
LegacyDoc(i) ==
    ("_id" :> Oid(i)) @@ ("id" :> Str("legacy")) @@ ("status" :> Str("completed"))
        @@ ("legacy_code" :> Num(7))

\* insertOne(collectionName, record): the store assigns the identifier
InsertOne(st, collection, doc, oid) ==
    [st EXCEPT ![collection] = @ \cup {doc @@ ("_id" :> Oid(oid))}]

Min(a, b) == IF a <= b THEN a ELSE b

\* findMany(collectionName, {}, limit): up to `limit` documents, in no defined order
FindMany(st, collection, limit) ==
    {S \in SUBSET st[collection] : Cardinality(S) = Min(limit, Cardinality(st[collection]))}

(***************************************************************************)
(* State.                                                                  *)
(***************************************************************************)
VARIABLES
    db,         \* the handle imported from `database`: "connected", or "None"
    store,      \* the store's contents: collection name -> set of documents
    store0,     \* the store's contents when the process started
    nextOid,    \* the number of the next identifier the store assigns
    pc,         \* per request: "idle" (not yet arrived), "handler", "done"
    req,        \* per request: what the client sent
    model,      \* per request: the validated body handed to the route function
    res,        \* per request: the response
    calls       \* per request: the store calls its handler has issued

vars == << db, store, store0, nextOid, pc, req, model, res, calls >>

Reqs == 1..NumReqs

NoResponse == [status |-> 0, body |-> << >>]

Init ==
    /\ db \in {"connected", "None"}
    /\ \E k \in 0..MaxInitial :
          /\ store = [c \in Collections |-> {LegacyDoc(i) : i \in 1..k}]
          /\ nextOid = k + 1
    /\ store0 = store
    /\ pc = [p \in Reqs |-> "idle"]
    /\ req = [p \in Reqs |-> NoRequest]
    /\ model = [p \in Reqs |-> << >>]
    /\ res = [p \in Reqs |-> NoResponse]
    /\ calls = [p \in Reqs |-> 0]

\* the response of request p is sent
Respond(p, status, body) ==
    /\ res' = [res EXCEPT ![p] = [status |-> status, body |-> body]]
    /\ pc' = [pc EXCEPT ![p] = "done"]

(***************************************************************************)
(* A request arrives (requests are numbered in order of arrival).  FastAPI *)
(* validates the body of a POST against the model the route declares       *)
(* before it calls the route function; a body that fails is answered 422.  *)
(***************************************************************************)
Dispatch(p) ==
    /\ pc[p] = "idle"
    /\ IF p = 1 THEN TRUE ELSE pc[p - 1] # "idle"
    /\ \E r \in Requests :
          /\ req' = [req EXCEPT ![p] = r]
          /\ IF r.op = "create"
             THEN LET v == Validate(RouteModel(r.route), r.payload)
                  IN  IF v.ok
                      THEN /\ model' = [model EXCEPT ![p] = v.value]
                           /\ pc' = [pc EXCEPT ![p] = "handler"]
                           /\ UNCHANGED res
                      ELSE /\ Respond(p, 422, [detail |-> v.errors])
                           /\ UNCHANGED model
             ELSE /\ pc' = [pc EXCEPT ![p] = "handler"]
                  /\ UNCHANGED << model, res >>
    /\ UNCHANGED << db, store, store0, nextOid, calls >>

(***************************************************************************)
(* create_item: one call of create_document, which may raise.              *)
(***************************************************************************)
\* faulty variant: no check of the handle before the store is called
create_item_nocheck(p, collection, m) ==
    /\ calls' = [calls EXCEPT ![p] = @ + 1]
    /\ \/ /\ store' = InsertOne(store, collection, m, nextOid)
          /\ nextOid' = nextOid + 1
          /\ Respond(p, 200, [id |-> ToStr(Oid(nextOid))])
       \/ /\ Respond(p, 500, [detail |-> "Internal Server Error"])
          /\ UNCHANGED << store, nextOid >>

\* faulty variant: a failed insert is tried a second time
create_item_retry(p, collection, m) ==
    IF db = "None"
    THEN /\ Respond(p, 503, [detail |-> "Database not available"])
         /\ UNCHANGED << store, nextOid, calls >>
    ELSE \/ /\ calls' = [calls EXCEPT ![p] = @ + 1]
            /\ store' = InsertOne(store, collection, m, nextOid)
            /\ nextOid' = nextOid + 1
            /\ Respond(p, 200, [id |-> ToStr(Oid(nextOid))])
         \/ /\ calls' = [calls EXCEPT ![p] = @ + 2]
            /\ store' = InsertOne(store, collection, m, nextOid)
            /\ nextOid' = nextOid + 1
            /\ Respond(p, 200, [id |-> ToStr(Oid(nextOid))])
         \/ /\ calls' = [calls EXCEPT ![p] = @ + 2]
            /\ Respond(p, 500, [detail |-> "Internal Server Error"])
            /\ UNCHANGED << store, nextOid >>

create_item(p, collection, m) ==
    IF db = "None"
    THEN /\ Respond(p, 503, [detail |-> "Database not available"])
         /\ UNCHANGED << store, nextOid, calls >>
    ELSE /\ calls' = [calls EXCEPT ![p] = @ + 1]
         /\ \/ /\ store' = InsertOne(store, collection, m, nextOid)
               /\ nextOid' = nextOid + 1
               /\ Respond(p, 200, [id |-> ToStr(Oid(nextOid))])
            \/ /\ Respond(p, 500, [detail |-> "Internal Server Error"])
               /\ UNCHANGED << store, nextOid >>

\* POST /api/projects, /api/cee, /api/mar, /api/audits, /api/documents
api_create(p) ==
    /\ pc[p] = "handler"
    /\ req[p].op = "create"
    /\ create_item(p, RouteCollection(req[p].route), model[p])
    /\ UNCHANGED << db, store0, req, model >>

(***************************************************************************)
(* list_items: one call of get_documents, which may raise; then the        *)
(* store's _id is replaced by its string form under the key id.            *)
(***************************************************************************)
\* faulty variant: id is added but the store's _id is left in the document
NormalizeId_keep(d) ==
    IF "_id" \in DOMAIN d
    THEN [k \in DOMAIN d \cup {"id"} |-> IF k = "id" THEN ToStr(d["_id"]) ELSE d[k]]
    ELSE d

\* faulty variant: fields holding null are dropped from the returned document
NormalizeId_dropnull(d) ==
    IF "_id" \in DOMAIN d
    THEN [k \in {x \in DOMAIN d \ {"_id"} : d[x].t # "null"} \cup {"id"} |->
             IF k = "id" THEN ToStr(d["_id"]) ELSE d[k]]
    ELSE d

NormalizeId(d) ==
    IF "_id" \in DOMAIN d
    THEN [k \in (DOMAIN d \ {"_id"}) \cup {"id"} |-> IF k = "id" THEN ToStr(d["_id"]) ELSE d[k]]
    ELSE d

\* faulty variant: no check of the handle before the store is queried
list_items_nocheck(p, collection, limit) ==
    /\ calls' = [calls EXCEPT ![p] = @ + 1]
    /\ \/ \E data \in FindMany(store, collection, limit) :
             Respond(p, 200, {NormalizeId(d) : d \in data})
       \/ Respond(p, 500, [detail |-> "Internal Server Error"])

list_items(p, collection, limit) ==
    IF db = "None"
    THEN /\ Respond(p, 503, [detail |-> "Database not available"])
         /\ UNCHANGED calls
    ELSE /\ calls' = [calls EXCEPT ![p] = @ + 1]
         /\ \/ \E data \in FindMany(store, collection, limit) :
                  Respond(p, 200, {NormalizeId(d) : d \in data})
            \/ Respond(p, 500, [detail |-> "Internal Server Error"])

\* GET /api/projects, /api/cee, /api/mar, /api/audits, /api/documents
api_list(p) ==
    /\ pc[p] = "handler"
    /\ req[p].op = "list"
    /\ list_items(p, RouteCollection(req[p].route), req[p].limit)
    /\ UNCHANGED << db, store, store0, nextOid, req, model >>

\* GET /schema
get_schema(p) ==
    /\ pc[p] = "handler"
    /\ req[p].op = "schema"
    /\ Respond(p, 200, SchemaPayload)
    /\ UNCHANGED << db, store, store0, nextOid, req, model, calls >>

Next ==
    \E p \in Reqs :
        \/ Dispatch(p)
        \/ api_create(p)
        \/ api_list(p)
        \/ get_schema(p)

Spec == Init /\ [][Next]_vars

(***************************************************************************)
(* A client that issues its calls one after the other: a request arrives   *)
(* only when every earlier one has been answered.                          *)
(***************************************************************************)
DispatchInTurn(p) ==
    /\ \A q \in Reqs : q < p => pc[q] = "done"
    /\ Dispatch(p)

NextSeq ==
    \E p \in Reqs :
        \/ DispatchInTurn(p)
        \/ api_create(p)
        \/ api_list(p)
        \/ get_schema(p)

SpecSeq == Init /\ [][NextSeq]_vars

(***************************************************************************)
(* Vocabulary of the properties.                                           *)
(***************************************************************************)
Done(p) == pc[p] = "done"
IsCreate(p) == req[p].op = "create"
IsList(p) == req[p].op = "list"

\* the documents the process has inserted into a collection
Inserted(c) == store[c] \ store0[c]

\* the schema tables of the specification (section 3): required fields and
\* numeric lower bounds of each collection
RequiredNames(c) ==
    CASE c = "user" -> {"name", "email"}
      [] c = "client" -> {"name"}
      [] c = "document" -> {"title"}
      [] c = "project" -> {"title"}
      [] c = "task" -> {"project_id", "title"}
      [] c = "ceeapplication" -> {"project_id"}
      [] c = "marapplication" -> {"project_id"}
      [] c = "audit" -> {"project_id"}

LowerBound(c) ==
    CASE c = "document" -> [k \in {"version"} |-> 1]
      [] c = "project" -> [k \in {"budget_eur"} |-> 0]
      [] c = "ceeapplication" -> [k \in {"cee_volume_kwh", "cee_value_eur"} |-> 0]
      [] c = "marapplication" -> [k \in {"amount_eur"} |-> 0]
      [] OTHER -> [k \in {} |-> 0]

\* the HTTP surface of the specification (section 6): the record kind of a route
RouteKind(route) ==
    CASE route = "projects" -> "project"
      [] route = "cee" -> "ceeapplication"
      [] route = "mar" -> "marapplication"
      [] route = "audits" -> "audit"
      [] route = "documents" -> "document"

EnumFields(m) == {m.fields[i] : i \in {j \in 1..Len(m.fields) : m.fields[j].type = "enum"}}

SatisfiesSchema(c, d) ==
    /\ \A n \in RequiredNames(c) : n \in DOMAIN d /\ d[n].t = "str"
    /\ \A f \in EnumFields(COLLECTIONS[c]) :
          f.name \in DOMAIN d /\ d[f.name].t = "str" /\ d[f.name].v \in f.allowed
    /\ \A n \in DOMAIN LowerBound(c) :
          (n \in DOMAIN d /\ d[n].t = "num") => d[n].v >= LowerBound(c)[n]

\* C1: whatever bodies the clients post, every document inserted into a
\* collection satisfies the collection's schema: required fields present,
\* enum fields within their allowed values, bounded numbers at or above
\* their bound.
C1_InsertedSatisfySchema ==
    \A c \in Collections : \A d \in Inserted(c) : SatisfiesSchema(c, d)

\* a rejected below-bound body and an accepted zero have both been handled
C1_Witness ==
    /\ \E d \in Inserted("marapplication") : d["amount_eur"] = Num(0)
    /\ \E p \in Reqs :
          /\ Done(p) /\ IsCreate(p) /\ res[p].status = 422
          /\ \E i \in 1..Len(res[p].body.detail) :
                res[p].body.detail[i].type = "ConstraintViolation"

(***************************************************************************)
(* C2                                                                      *)
(***************************************************************************)
MissingIn(route, b) == {n \in RequiredNames(RouteKind(route)) : n \notin DOMAIN b}
BelowBoundIn(route, b) ==
    {n \in DOMAIN LowerBound(RouteKind(route)) \cap DOMAIN b :
        b[n].t = "num" /\ b[n].v < LowerBound(RouteKind(route))[n]}

Arrives(p) == pc[p] = "idle" /\ pc'[p] # "idle"

Names(errors, type, n) ==
    \E i \in 1..Len(errors) : errors[i].type = type /\ errors[i].loc = n

ScenarioB == [k \in {"status"} |-> Str("submitted")]
ScenarioC == ("project_id" :> Str("p1")) @@ ("amount_eur" :> Num(0 - 5))
ZeroAmount == ("project_id" :> Str("p1")) @@ ("amount_eur" :> Num(0))

\* C2: with the store available, a create whose body omits a required field
\* or holds a number below its bound is answered with a validation error
\* naming each such field (MissingField, ConstraintViolation), issues no
\* store call and leaves every collection unchanged; any validation error
\* leaves the store unchanged; amount_eur = 0 is not rejected.
C2_InvalidRejectedNoWrite ==
    [][\A p \in Reqs :
          (Arrives(p) /\ req'[p].op = "create" /\ db = "connected") =>
             LET r == req'[p].route
                 b == req'[p].payload
             IN  /\ (MissingIn(r, b) \cup BelowBoundIn(r, b) # {}) =>
                        /\ pc'[p] = "done"
                        /\ res'[p].status = 422
                        /\ \A n \in MissingIn(r, b) :
                              Names(res'[p].body.detail, "MissingField", n)
                        /\ \A n \in BelowBoundIn(r, b) :
                              Names(res'[p].body.detail, "ConstraintViolation", n)
                 /\ res'[p].status = 422 =>
                        /\ store' = store
                        /\ calls'[p] = 0
                        /\ pc'[p] = "done"
                        /\ res'[p].body.detail # << >>
                 /\ (r = "mar" /\ b = ZeroAmount) => res'[p].status # 422
    ]_vars

\* scenarios B and C have both been answered, with the store available
C2_Witness ==
    /\ db = "connected"
    /\ \E p, q \in Reqs :
          /\ Done(p) /\ IsCreate(p) /\ req[p].route = "cee" /\ req[p].payload = ScenarioB
          /\ res[p].body.detail = << [type |-> "MissingField", loc |-> "project_id"] >>
          /\ Done(q) /\ IsCreate(q) /\ req[q].route = "mar" /\ req[q].payload = ScenarioC
          /\ res[q].body.detail = << [type |-> "ConstraintViolation", loc |-> "amount_eur"] >>
          /\ store = store0

\* C3: with the handle None, every list request is answered 503 without
\* a store call, and the store keeps its initial contents.
C3_ListUnavailable ==
    db = "None" =>
        /\ store = store0
        /\ \A p \in Reqs :
              (IsList(p) /\ Done(p)) => (res[p].status = 503 /\ calls[p] = 0)

\* list requests on two collections, with different limits, answered while
\* the handle is None
C3_Witness ==
    /\ db = "None"
    /\ \E p, q \in Reqs :
          /\ IsList(p) /\ Done(p) /\ res[p].status = 503
          /\ IsList(q) /\ Done(q) /\ res[q].status = 503
          /\ req[p].route # req[q].route
          /\ req[p].limit # req[q].limit

\* C4 as stated: with the handle None, every create request, whatever its
\* body, is answered 503.
C4_Original ==
    db = "None" =>
        \A p \in Reqs : (IsCreate(p) /\ Done(p)) => res[p].status = 503

\* C4 amended: with the handle None, a create request whose body validates
\* is answered 503 and one whose body fails validation is answered 422
\* (the body is validated before the handle is checked); neither issues a
\* store call and the store keeps its initial contents.
C4_ValidationBeforeAvailability ==
    db = "None" =>
        /\ store = store0
        /\ \A p \in Reqs :
              (IsCreate(p) /\ pc[p] # "idle") =>
                 /\ calls[p] = 0
                 /\ Done(p) =>
                       res[p].status =
                          IF Validate(RouteModel(req[p].route), req[p].payload).ok
                          THEN 503 ELSE 422

\* a valid and an invalid body have both been answered while the handle is None
C4_Witness ==
    /\ db = "None"
    /\ \E p, q \in Reqs :
          /\ IsCreate(p) /\ Done(p) /\ res[p].status = 503
          /\ IsCreate(q) /\ Done(q) /\ res[q].status = 422

\* C5: no document returned by a list request carries the key _id, and
\* each has an id that is a string.
C5_NoNativeIdStringId ==
    \A p \in Reqs :
        (IsList(p) /\ Done(p) /\ res[p].status = 200) =>
            \A r \in res[p].body :
                /\ "_id" \notin DOMAIN r
                /\ "id" \in DOMAIN r
                /\ r["id"].t = "str"

\* a list returned a legacy document and a document inserted by a create
C5_Witness ==
    \E p \in Reqs :
        /\ IsList(p) /\ Done(p) /\ res[p].status = 200
        /\ \E r \in res[p].body : "legacy_code" \in DOMAIN r
        /\ \E r \in res[p].body : "legacy_code" \notin DOMAIN r

\* C7: with the store available, a finished create whose body validated
\* and a finished list have each issued exactly one store call, answered
\* 200 or, when that call failed, 500; no request ever issues a second
\* store call; a create answered 200 has put exactly one document, the one
\* with the returned id, into its collection, and one answered 500 none.
C7_OneStoreCallNoRetry ==
    db = "connected" =>
        /\ \A p \in Reqs :
              /\ calls[p] <= 1
              /\ (Done(p) /\ IsList(p)) => (calls[p] = 1 /\ res[p].status \in {200, 500})
              /\ (Done(p) /\ IsCreate(p) /\ res[p].status # 422) =>
                    /\ calls[p] = 1
                    /\ res[p].status \in {200, 500}
                    /\ res[p].status = 200 =>
                          Cardinality({d \in Inserted(RouteKind(req[p].route)) :
                                          ToStr(d["_id"]) = res[p].body.id}) = 1
              /\ (Done(p) /\ IsCreate(p) /\ res[p].status = 422) => calls[p] = 0
        /\ Cardinality(UNION {Inserted(c) : c \in Collections}) =
              Cardinality({p \in Reqs : Done(p) /\ IsCreate(p) /\ res[p].status = 200})

\* a create and a list whose store call failed, each answered 500 after
\* one call
C7_Witness ==
    /\ db = "connected"
    /\ \E p, q \in Reqs :
          /\ IsCreate(p) /\ Done(p) /\ res[p].status = 500 /\ calls[p] = 1
          /\ IsList(q) /\ Done(q) /\ res[q].status = 500 /\ calls[q] = 1

(***************************************************************************)
(* C8                                                                      *)
(***************************************************************************)
\* the eight collection names, in declaration order
ExpectedNames ==
    << <<"u", "s", "e", "r">>,
       <<"c", "l", "i", "e", "n", "t">>,
       <<"d", "o", "c", "u", "m", "e", "n", "t">>,
       <<"p", "r", "o", "j", "e", "c", "t">>,
       <<"t", "a", "s", "k">>,
       <<"c", "e", "e", "a", "p", "p", "l", "i", "c", "a", "t", "i", "o", "n">>,
       <<"m", "a", "r", "a", "p", "p", "l", "i", "c", "a", "t", "i", "o", "n">>,
       <<"a", "u", "d", "i", "t">> >>

\* the same names as the keys of the store
ExpectedKeys ==
    << "user", "client", "document", "project", "task", "ceeapplication",
       "marapplication", "audit" >>

\* the number of fields of each kind in the schema tables of the specification
ExpectedFieldCount == << 4, 5, 6, 8, 5, 6, 4, 5 >>

\* C8: every answer of GET /schema, whatever the store holds and whatever
\* was requested before, lists exactly 8 collections in declaration order,
\* each under its lower-cased kind name, with the field count of the kind's
\* schema and, per field, required exactly for the kind's required fields.
C8_SchemaDescriptors ==
    \A p \in Reqs :
        (req[p].op = "schema" /\ Done(p)) =>
            /\ res[p].status = 200
            /\ calls[p] = 0
            /\ Len(res[p].body.collections) = 8
            /\ \A i \in 1..8 :
                  LET desc == res[p].body.collections[i]
                  IN  /\ desc.name = ExpectedNames[i]
                      /\ Len(desc.fields) = ExpectedFieldCount[i]
                      /\ \A j \in 1..Len(desc.fields) :
                            /\ desc.fields[j].name = COLLECTIONS[ExpectedKeys[i]].fields[j].name
                            /\ desc.fields[j].required =
                                  (desc.fields[j].name \in RequiredNames(ExpectedKeys[i]))

\* GET /schema answered in a state where a create has inserted a document
C8_Witness ==
    /\ \E c \in Collections : Inserted(c) # {}
    /\ \E p \in Reqs : req[p].op = "schema" /\ Done(p)

(***************************************************************************)
(* C9                                                                      *)
(***************************************************************************)
\* C9 as stated: every returned document is a stored document of the
\* collection with every field other than _id, a stored id included,
\* under its name and with its value.
C9_Original ==
    \A p \in Reqs :
        (IsList(p) /\ Done(p) /\ res[p].status = 200) =>
            \A r \in res[p].body :
                \E d \in store[RouteKind(req[p].route)] :
                    \A k \in DOMAIN d \ {"_id"} : k \in DOMAIN r /\ r[k] = d[k]

\* C9 amended: every returned document is a stored document of the
\* collection with every field other than _id and id under its name and
\* with its value, fields outside the schema included, and nothing added
\* but id; id holds the string form of the stored _id, which replaces the
\* value of a stored field named id.
C9_PassThroughExceptId ==
    \A p \in Reqs :
        (IsList(p) /\ Done(p) /\ res[p].status = 200) =>
            \A r \in res[p].body :
                \E d \in store[RouteKind(req[p].route)] :
                    /\ DOMAIN r = (DOMAIN d \ {"_id"}) \cup {"id"}
                    /\ \A k \in DOMAIN d \ {"_id", "id"} : r[k] = d[k]
                    /\ r["id"] = ToStr(d["_id"])

\* a list returned a legacy document, which has a field outside the schema
\* and a stored id, and an inserted document, which has null fields
C9_Witness ==
    \E p \in Reqs :
        /\ IsList(p) /\ Done(p) /\ res[p].status = 200
        /\ \E r \in res[p].body : "legacy_code" \in DOMAIN r /\ r["legacy_code"] = Num(7)
        /\ \E r \in res[p].body : \E k \in DOMAIN r : r[k] = Null

(***************************************************************************)
(* C6                                                                      *)
(***************************************************************************)
\* a create on the project route, with only a title, has returned an id
TitleOnlyCreated ==
    \E q \in Reqs :
        /\ IsCreate(q) /\ Done(q) /\ res[q].status = 200
        /\ req[q].route = "projects"
        /\ DOMAIN req[q].payload = {"title"}

\* request p is answered 200 by this step, as a list of the project route
ListsProjects(p) ==
    /\ pc[p] = "handler" /\ pc'[p] = "done"
    /\ IsList(p) /\ req[p].route = "projects"
    /\ res'[p].status = 200

HasDraft(body) ==
    \E r \in body : "status" \in DOMAIN r /\ r["status"] = Str("draft")

\* C6 as stated (calls issued one after the other, SpecSeq): from any store
\* state, once a title-only create on project has returned an id, a
\* subsequent successful listRecords("project", 1) returns a record with
\* status "draft".
C6_Original ==
    [][\A p \in Reqs :
          (ListsProjects(p) /\ req[p].limit = 1 /\ TitleOnlyCreated) => HasDraft(res'[p].body)
    ]_vars

\* C6 amended: once a title-only create on project has returned an id, a
\* subsequent successful listRecords("project", limit) returns a record with
\* status "draft" whenever limit is at least the number of project
\* documents then stored; for limit 1, whenever the created document is
\* the only one.
C6_DraftListedWithinLimit ==
    [][\A p \in Reqs :
          (/\ ListsProjects(p)
           /\ TitleOnlyCreated
           /\ req[p].limit >= Cardinality(store["project"])) => HasDraft(res'[p].body)
    ]_vars

\* listRecords("project", 1) has returned the draft created from a title alone
C6_Witness ==
    /\ TitleOnlyCreated
    /\ \E p \in Reqs :
          /\ IsList(p) /\ Done(p) /\ res[p].status = 200
          /\ req[p].route = "projects" /\ req[p].limit = 1
          /\ HasDraft(res[p].body)

(***************************************************************************)
(* C10                                                                     *)
(***************************************************************************)
AllDone == \A p \in Reqs : Done(p)

\* the creates answered 200 whose route is of collection c
Succeeded(c) ==
    {p \in Reqs : IsCreate(p) /\ Done(p) /\ res[p].status = 200 /\ RouteKind(req[p].route) = c}

\* the documents of collection c whose id one of the creates in Q returned
DocsOf(c, Q) == {d \in store[c] : \E p \in Q : ToStr(d["_id"]) = res[p].body.id}

\* C10: under every interleaving of the requests against an available
\* store, no step changes the process's shared handle, a list step leaves
\* the store as it is, and once every request is answered each collection
\* holds its initial documents and, for each create answered 200 on it,
\* one document of its own: none lost, none twice, none elsewhere.
C10_ConcurrentRequests ==
    /\ [][/\ db' = db
          /\ \A p \in Reqs : (IsList(p) /\ pc[p] # pc'[p]) => store' = store
       ]_vars
    /\ [](( AllDone /\ db = "connected") =>
            \A c \in Collections :
                /\ store0[c] \subseteq store[c]
                /\ Inserted(c) = DocsOf(c, Succeeded(c))
                /\ Cardinality(Inserted(c)) = Cardinality(Succeeded(c)))

\* two creates on the same collection, both answered 200, and nothing left
\* to run
C10_Witness ==
    /\ AllDone
    /\ db = "connected"
    /\ \E c \in Collections : Cardinality(Succeeded(c)) = 2 /\ Cardinality(Inserted(c)) = 2

====
